---------------------------- MODULE Spec2Model ----------------------------
(***************************************************************************)
(* Avrix build tooling: the flash-footprint gate (scripts/size_gate.py)    *)
(* and the toctree reference checker (tests/check_docs.py).                *)
(*                                                                         *)
(* The specifications of the module:                                       *)
(*   SpecGate   size_gate.main, one action per branch / loop iteration     *)
(*   SpecParse  _iter_toctree_refs, one action per line of the document    *)
(*   SpecDocs   check_docs.main: _walk_refs (call stack made explicit),    *)
(*              _missing_paths and the exit status                         *)
(*   SpecDocsFair  SpecDocs with weak fairness, for termination            *)
(*   Spec       any one of the three programs                              *)
(* Text (file names, reference tokens, document lines, the stamp file) is  *)
(* modelled as sequences of one-character strings, so that lstrip,         *)
(* startswith, endswith, Path.suffix, split and the decimal formatting are *)
(* computed and not assumed.                                               *)
(***************************************************************************)
EXTENDS Integers, Sequences, FiniteSets, TLC

(***************************************************************************)
(* Bounds of the model.                                                    *)
(***************************************************************************)
\* size gate: ELF files per run, section sizes k * SectionUnit, limits
MaxElfs == 3
MaxSection == 1
SectionUnit == 512
MaxLimit == 2

\* Python's None and a present value: an optional value is <<>> or <<v>>
None == <<>>
Some(v) == <<v>>

(***************************************************************************)
(* State.                                                                  *)
(***************************************************************************)
\* scripts/size_gate.py: main
VARIABLES
    g_pc,          \* position in main: "start", "loop", "returned", "raised", "usage"
    explicit_mode, \* args.dir is None
    elfs,          \* per ELF, in list order: the non-blank lines avr-size prints for it
    limit,         \* args.limit
    g_i,           \* index of the next ELF of the for loop
    status,        \* main's status
    max_size,      \* main's max_size
    printed,       \* the per-artifact report lines, in print order
    stamp,         \* content of the output-stamp file, None while not written
    g_ret          \* main's return value, None while it has not returned

gateVars == <<g_pc, explicit_mode, elfs, limit, g_i, status, max_size, printed, stamp, g_ret>>

\* tests/check_docs.py: _iter_toctree_refs
VARIABLES
    p_pc,         \* "scan" while the generator iterates over the lines, "end" once exhausted
    consumed,     \* the lines of the document iterated over so far
    inside,       \* _iter_toctree_refs' inside
    base_indent,  \* _iter_toctree_refs' base_indent (None or a width)
    yielded       \* the references yielded so far, in order

parseVars == <<p_pc, consumed, inside, base_indent, yielded>>

\* tests/check_docs.py: main, _walk_refs, _missing_paths
VARIABLES
    d_pc,       \* position in main: "start", "walk", "missing", "report", "returned"
    files,      \* the files under docs_dir: name (relative to docs_dir) -> lines
    ext_args,   \* args.ext as given on the command line
    recursive,  \* args.recursive
    stack,      \* the active calls of _walk_refs, innermost last
    seen,       \* the seen set shared by the calls, None before the first call
    refs,       \* main's refs
    missing,    \* main's missing
    shown,      \* the missing paths printed
    d_ret,      \* main's return value, None while it has not returned
    parses,     \* per file, how often _iter_toctree_refs read it
    walk_steps  \* steps of _walk_refs taken so far (entries, iterations, returns)

docsVars == <<d_pc, files, ext_args, recursive, stack, seen, refs, missing, shown, d_ret,
             parses, walk_steps>>

vars == <<gateVars, parseVars, docsVars>>

(***************************************************************************)
(* Generic helpers on sequences (Python list / str primitives).            *)
(***************************************************************************)
RECURSIVE SeqsUpTo(_, _)
SeqsUpTo(S, n) ==
    IF n = 0 THEN {<<>>}
    ELSE LET shorter == SeqsUpTo(S, n - 1)
         IN  shorter \cup {Append(s, x) : s \in {t \in shorter : Len(t) = n - 1}, x \in S}

Range(s) == {s[i] : i \in 1..Len(s)}

Count(s, x) == Cardinality({i \in 1..Len(s) : s[i] = x})

SetMax(S) == CHOOSE m \in S : \A x \in S : x <= m

(***************************************************************************)
(*                         scripts/size_gate.py                            *)
(***************************************************************************)
\* avr-size output: a header line and one row "text data bss dec hex filename";
\* only the first two columns of the last line are read.
HeaderLine == <<"text", "data">>
SectionSizes == {k * SectionUnit : k \in 0..MaxSection}
WellFormed == {<<HeaderLine, <<t, d>>>> : t \in SectionSizes, d \in SectionSizes}
Malformed == {<<>>, <<HeaderLine>>}
ToolOutputs == WellFormed \cup Malformed
Limits == {k * SectionUnit : k \in 0..MaxLimit}

\* flash_usage: len(lines) < 2 raises RuntimeError
FlashUsageRaises(out) == Len(out) < 2

\* flash_usage: text + data of the last line
FlashUsage(out) == out[Len(out)][1] + out[Len(out)][2]

\* max_size = max(max_size, size)
NewMaxLast(m, size) == size
NewMax(m, size) == IF size > m THEN size ELSE m

\* if size > limit
OverLimitOrEqual(size, lim) == size >= lim
OverLimit(size, lim) == size > lim

\* f'{max_size}\n'
DigitChar == <<"0", "1", "2", "3", "4", "5", "6", "7", "8", "9">>
RECURSIVE Decimal(_)
Decimal(n) ==
    IF n < 10 THEN <<DigitChar[n + 1]>>
    ELSE Decimal(n \div 10) \o <<DigitChar[(n % 10) + 1]>>

StampText(n) == Decimal(n) \o <<"\n">>

GateInit ==
    /\ g_pc = "start"
    /\ explicit_mode \in BOOLEAN
    /\ elfs \in SeqsUpTo(ToolOutputs, MaxElfs)
    /\ limit \in Limits
    /\ g_i = 1
    /\ status = 0
    /\ max_size = 0
    /\ printed = <<>>
    /\ stamp = None
    /\ g_ret = None

\* parser.error: explicit mode with fewer than two positional arguments
\* (no ELF before the stamp path) exits through SystemExit(2)
GateUsageError ==
    /\ g_pc = "start"
    /\ explicit_mode
    /\ Len(elfs) < 1
    /\ g_pc' = "usage"
    /\ UNCHANGED <<explicit_mode, elfs, limit, g_i, status, max_size, printed, stamp, g_ret>>
    /\ UNCHANGED <<parseVars, docsVars>>

\* directory sweep that finds no *.elf: return 1 before out_path is even computed
GateNoElves ==
    /\ g_pc = "start"
    /\ ~explicit_mode
    /\ elfs = <<>>
    /\ g_pc' = "returned"
    /\ g_ret' = Some(1)
    /\ UNCHANGED <<explicit_mode, elfs, limit, g_i, status, max_size, printed, stamp>>
    /\ UNCHANGED <<parseVars, docsVars>>

\* limit = args.limit; status = 0; max_size = 0
GateBegin ==
    /\ g_pc = "start"
    /\ elfs # <<>>
    /\ g_pc' = "loop"
    /\ status' = 0
    /\ max_size' = 0
    /\ g_i' = 1
    /\ UNCHANGED <<explicit_mode, elfs, limit, printed, stamp, g_ret>>
    /\ UNCHANGED <<parseVars, docsVars>>

\* one iteration of "for elf in elfs" whose flash_usage returns
GateMeasure ==
    /\ g_pc = "loop"
    /\ g_i <= Len(elfs)
    /\ ~FlashUsageRaises(elfs[g_i])
    /\ LET size == FlashUsage(elfs[g_i])
       IN  /\ max_size' = NewMax(max_size, size)
           /\ status' = IF OverLimit(size, limit) THEN 1 ELSE status
           /\ printed' = Append(printed,
                  [elf |-> g_i, size |-> size, over |-> OverLimit(size, limit)])
    /\ g_i' = g_i + 1
    /\ UNCHANGED <<g_pc, explicit_mode, elfs, limit, stamp, g_ret>>
    /\ UNCHANGED <<parseVars, docsVars>>

\* one iteration whose flash_usage raises: the exception leaves main
GateToolError ==
    /\ g_pc = "loop"
    /\ g_i <= Len(elfs)
    /\ FlashUsageRaises(elfs[g_i])
    /\ g_pc' = "raised"
    /\ UNCHANGED <<explicit_mode, elfs, limit, g_i, status, max_size, printed, stamp, g_ret>>
    /\ UNCHANGED <<parseVars, docsVars>>

\* out_path.write_text(f'{max_size}\n'); return status
GateWriteStamp ==
    /\ g_pc = "loop"
    /\ g_i > Len(elfs)
    /\ stamp' = Some(StampText(max_size))
    /\ g_ret' = Some(status)
    /\ g_pc' = "returned"
    /\ UNCHANGED <<explicit_mode, elfs, limit, g_i, status, max_size, printed>>
    /\ UNCHANGED <<parseVars, docsVars>>

GateNext ==
    \/ GateUsageError
    \/ GateNoElves
    \/ GateBegin
    \/ GateMeasure
    \/ GateToolError
    \/ GateWriteStamp


(***************************************************************************)
(*                 tests/check_docs.py: text primitives                    *)
(***************************************************************************)
Space == " "
IsSpace(c) == c = Space

RECURSIVE Spaces(_)
Spaces(n) == IF n = 0 THEN <<>> ELSE <<Space>> \o Spaces(n - 1)

\* str.lstrip()
RECURSIVE Lstrip(_)
Lstrip(s) == IF s # <<>> /\ IsSpace(Head(s)) THEN Lstrip(Tail(s)) ELSE s

\* str.rstrip()
RECURSIVE Rstrip(_)
Rstrip(s) ==
    IF s # <<>> /\ IsSpace(s[Len(s)]) THEN Rstrip(SubSeq(s, 1, Len(s) - 1)) ELSE s

\* str.strip()
Strip(s) == Rstrip(Lstrip(s))

\* str.startswith(p)
StartsWith(s, p) == Len(s) >= Len(p) /\ SubSeq(s, 1, Len(p)) = p

\* str.endswith(p)
EndsWith(s, p) == Len(s) >= Len(p) /\ SubSeq(s, Len(s) - Len(p) + 1, Len(s)) = p

\* s.split(sep, 1)[0]: what precedes the first occurrence of sep, all of s without one
SplitFirst(s, sep) ==
    LET hits == {i \in 1..(Len(s) - Len(sep) + 1) : SubSeq(s, i, i + Len(sep) - 1) = sep}
    IN  IF hits = {} THEN s
        ELSE SubSeq(s, 1, (CHOOSE i \in hits : \A j \in hits : i <= j) - 1)

(***************************************************************************)
(*              tests/check_docs.py: _iter_toctree_refs                    *)
(***************************************************************************)
\* document length and the indentation unit of the enumerated documents
MaxLines == 5
IndentStep == 3

ToctreeMarker == <<".", ".", " ", "t", "o", "c", "t", "r", "e", "e", ":", ":">>
OptionMarker == <<":">>
CommentMarker == <<"<", "!", "-", "-">>

\* line bodies of the enumerated documents: blank, directive, option, two entries
\* (the second with an inline comment), at the margin or indented by one step
OptionBody == <<":", "g", "l", "o", "b", ":">>
EntryA == <<"a">>
EntryB == <<"b">>
EntryBCommented == <<"b", " ", "<", "!", "-", "-", "c">>
Bodies == {ToctreeMarker, OptionBody, EntryA, EntryBCommented}
Indents == {0, IndentStep}
LineSet == {<<>>} \cup {Spaces(n) \o b : n \in Indents, b \in Bodies}

\* len(line) - len(stripped)
Indentation(line) == Len(line) - Len(Lstrip(line))

\* stripped.startswith(".. toctree::")
IsMarkerLine(line) == StartsWith(Lstrip(line), ToctreeMarker)

\* not stripped or stripped.startswith(":")
IsSkippedLine(line) == Lstrip(line) = <<>> \/ StartsWith(Lstrip(line), OptionMarker)

\* stripped.split("<!--", 1)[0].strip()
EntryText(line) == Strip(SplitFirst(Lstrip(line), CommentMarker))

\* ScanLine with a directive line that keeps the indentation of the previous block
ScanLineKeepsIndent(st, line) ==
    IF IsMarkerLine(line) THEN [st EXCEPT !.inside = TRUE]
    ELSE IF ~st.inside THEN st
    ELSE IF IsSkippedLine(line) THEN st
    ELSE IF st.base_indent = None
         THEN [st EXCEPT !.base_indent = Some(Indentation(line)),
                         !.out = Append(st.out, EntryText(line))]
    ELSE IF Indentation(line) < st.base_indent[1] THEN [st EXCEPT !.inside = FALSE]
    ELSE [st EXCEPT !.out = Append(st.out, EntryText(line))]

\* ScanLine with an option line that takes part in the indentation tracking
ScanLineOptionSetsIndent(st, line) ==
    IF IsMarkerLine(line) THEN [st EXCEPT !.inside = TRUE, !.base_indent = None]
    ELSE IF ~st.inside THEN st
    ELSE IF Lstrip(line) = <<>> THEN st
    ELSE IF st.base_indent = None
         THEN IF StartsWith(Lstrip(line), OptionMarker)
              THEN [st EXCEPT !.base_indent = Some(Indentation(line))]
              ELSE [st EXCEPT !.base_indent = Some(Indentation(line)),
                              !.out = Append(st.out, EntryText(line))]
    ELSE IF Indentation(line) < st.base_indent[1] THEN [st EXCEPT !.inside = FALSE]
    ELSE IF StartsWith(Lstrip(line), OptionMarker) THEN st
    ELSE [st EXCEPT !.out = Append(st.out, EntryText(line))]

\* the body of the for loop on one line; st = [inside, base_indent, out]
ScanLine(st, line) ==
    IF IsMarkerLine(line) THEN [st EXCEPT !.inside = TRUE, !.base_indent = None]
    ELSE IF ~st.inside THEN st
    ELSE IF IsSkippedLine(line) THEN st
    ELSE IF st.base_indent = None
         THEN [st EXCEPT !.base_indent = Some(Indentation(line)),
                         !.out = Append(st.out, EntryText(line))]
    ELSE IF Indentation(line) < st.base_indent[1] THEN [st EXCEPT !.inside = FALSE]
    ELSE [st EXCEPT !.out = Append(st.out, EntryText(line))]

ScanStart == [inside |-> FALSE, base_indent |-> None, out |-> <<>>]

\* the generator run over a whole document
RECURSIVE ScanAll(_, _)
ScanAll(st, lines) ==
    IF lines = <<>> THEN st ELSE ScanAll(ScanLine(st, Head(lines)), Tail(lines))

\* list(_iter_toctree_refs(rst_file)) for a file holding these lines
IterToctreeRefs(lines) == ScanAll(ScanStart, lines).out

ParseInit ==
    /\ p_pc = "scan"
    /\ consumed = <<>>
    /\ inside = FALSE
    /\ base_indent = None
    /\ yielded = <<>>

\* one iteration of "for line in ...splitlines()", on whatever line the file holds next
ParseLine ==
    /\ p_pc = "scan"
    /\ Len(consumed) < MaxLines
    /\ \E line \in LineSet :
         LET st == ScanLine([inside |-> inside, base_indent |-> base_indent,
                             out |-> yielded], line)
         IN  /\ consumed' = Append(consumed, line)
             /\ inside' = st.inside
             /\ base_indent' = st.base_indent
             /\ yielded' = st.out
    /\ UNCHANGED p_pc
    /\ UNCHANGED <<gateVars, docsVars>>

\* the file has no further line: the generator is exhausted
ParseEnd ==
    /\ p_pc = "scan"
    /\ p_pc' = "end"
    /\ UNCHANGED <<consumed, inside, base_indent, yielded>>
    /\ UNCHANGED <<gateVars, docsVars>>

ParseNext == ParseLine \/ ParseEnd

(***************************************************************************)
(*       tests/check_docs.py: _walk_refs, _missing_paths and main          *)
(***************************************************************************)
\* entries over all pages of a reference graph; entries of an index of mixed suffixes
MaxRefs == 4
MaxExtRefs == 2

Rst == <<".", "r", "s", "t">>
Md == <<".", "m", "d">>
MdNoDot == <<"m", "d">>
IndexToken == <<"i", "n", "d", "e", "x">>
IndexName == IndexToken \o Rst
TokA == <<"a">>
TokB == <<"b">>
TokC == <<"c">>
TokDotted == <<"v", "1", ".", "2">>

\* a page with one toctree block listing these entries
RECURSIVE EntryLines(_)
EntryLines(entries) ==
    IF entries = <<>> THEN <<>>
    ELSE <<Spaces(IndentStep) \o Head(entries)>> \o EntryLines(Tail(entries))

PageOf(entries) == IF entries = <<>> THEN <<>> ELSE <<ToctreeMarker>> \o EntryLines(entries)

\* ext if ext.startswith(".") else f".{ext}"
NormaliseExt(ext) == IF StartsWith(ext, <<".">>) THEN ext ELSE <<".">> \o ext

\* exts = tuple(... for ext in args.ext)
Exts == [i \in 1..Len(ext_args) |-> NormaliseExt(ext_args[i])]

\* child.exists() / candidate.exists() for a path docs_dir / name
Exists(name) == name \in DOMAIN files

\* docs_dir / (ref if ref.endswith(ext) else f"{ref}{ext}")
ChildCandidate(ref, ext) == IF EndsWith(ref, ext) THEN ref ELSE ref \o ext

\* the for/break over exts in _walk_refs: the first candidate that exists, or None
FirstChild(ref, exts) ==
    LET hits == {i \in 1..Len(exts) : Exists(ChildCandidate(ref, exts[i]))}
    IN  IF hits = {} THEN None
        ELSE Some(ChildCandidate(ref, exts[CHOOSE i \in hits : \A j \in hits : i <= j]))

\* seen = seen or set()
SeenOrNew(s) == IF s = None THEN {} ELSE IF s[1] = {} THEN {} ELSE s[1]

\* the seen test that never finds the root
AlreadySeenNever(root, s) == FALSE
\* if root in seen
AlreadySeen(root, s) == root \in s

\* the child's references put before the caller's instead of after them
ExtendRefsInFront(parent_refs, child_refs) == child_refs \o parent_refs
\* refs.extend(_walk_refs(child, ...)) when the call returns
ExtendRefs(parent_refs, child_refs) == parent_refs \o child_refs

\* Path(ref).suffix: from the last dot of the name, unless that dot is its first or
\* last character
PathSuffix(ref) ==
    LET dots == {i \in 1..Len(ref) : ref[i] = "."}
    IN  IF dots = {} THEN <<>>
        ELSE LET i == CHOOSE d \in dots : \A e \in dots : e <= d
             IN  IF 1 < i /\ i < Len(ref) THEN SubSeq(ref, i, Len(ref)) ELSE <<>>

\* the body of _missing_paths' loop for one ref: the paths it appends to missing
MissingOf(ref, exts) ==
    IF PathSuffix(ref) # <<>>
    THEN IF ~Exists(ref) THEN <<ref>> ELSE <<>>
    ELSE IF \E i \in 1..Len(exts) : Exists(ref \o exts[i]) THEN <<>>
         ELSE <<ref \o exts[1]>>

RECURSIVE MissingPaths(_, _)
MissingPaths(rs, exts) ==
    IF rs = <<>> THEN <<>>
    ELSE MissingOf(Head(rs), exts) \o MissingPaths(Tail(rs), exts)

NoParses == [n \in {} |-> 0]
ParseCount(n) == IF n \in DOMAIN parses THEN parses[n] ELSE 0

\* reference graphs: an index and the pages a.rst, b.rst (c.rst never exists)
GraphTokens == {IndexToken, TokA, TokB, TokC}
Absent == None
FilesOf(ci, ca, cb) ==
    [n \in {IndexName}
           \cup (IF ca = Absent THEN {} ELSE {TokA \o Rst})
           \cup (IF cb = Absent THEN {} ELSE {TokB \o Rst})
       |-> PageOf(IF n = IndexName THEN ci ELSE IF n = TokA \o Rst THEN ca[1] ELSE cb[1])]
EntryCount(c) == IF c = Absent THEN 0 ELSE Len(c[1])
Pages(n) == {Absent} \cup {Some(c) : c \in SeqsUpTo(GraphTokens, n)}

GraphInputs ==
    /\ ext_args = <<Rst>>
    /\ recursive \in BOOLEAN
    /\ \E ci \in SeqsUpTo(GraphTokens, MaxRefs) :
       \E ca \in Pages(MaxRefs - Len(ci)) :
       \E cb \in Pages(MaxRefs - Len(ci) - EntryCount(ca)) :
           files = FilesOf(ci, ca, cb)

\* an index whose entries carry no, an accepted or another suffix, over leaf pages
ExtTokens == {TokA, TokA \o Rst, TokA \o Md, TokDotted}
ExtFiles == {TokA \o Rst, TokA \o Md, TokDotted, TokDotted \o Rst}
ExtInputs ==
    /\ ext_args \in {<<Rst>>, <<Rst, Md>>, <<Rst, MdNoDot>>}
    /\ recursive \in BOOLEAN
    /\ \E ci \in SeqsUpTo(ExtTokens, MaxExtRefs) :
       \E present \in SUBSET ExtFiles :
           files = [n \in {IndexName} \cup present |->
                       IF n = IndexName THEN PageOf(ci) ELSE <<>>]

\* the index file does not exist
NoIndexInputs ==
    /\ ext_args = <<Rst>>
    /\ recursive \in BOOLEAN
    /\ \E present \in SUBSET {TokA \o Rst} : files = [n \in present |-> <<>>]

DocsInit ==
    /\ d_pc = "start"
    /\ (GraphInputs \/ ExtInputs \/ NoIndexInputs)
    /\ stack = <<>>
    /\ seen = None
    /\ refs = <<>>
    /\ missing = <<>>
    /\ shown = <<>>
    /\ d_ret = None
    /\ parses = NoParses
    /\ walk_steps = 0

\* if not index.exists(): return 2
MainIndexMissing ==
    /\ d_pc = "start"
    /\ ~Exists(IndexName)
    /\ d_ret' = Some(2)
    /\ d_pc' = "returned"
    /\ UNCHANGED <<files, ext_args, recursive, stack, seen, refs, missing, shown, parses,
                   walk_steps>>
    /\ UNCHANGED <<gateVars, parseVars>>

\* refs = _walk_refs(index, ...): the outermost call, made with seen=None
MainCallWalk ==
    /\ d_pc = "start"
    /\ Exists(IndexName)
    /\ stack' = <<[root |-> IndexName, at |-> "call", todo |-> <<>>, refs |-> <<>>]>>
    /\ d_pc' = "walk"
    /\ UNCHANGED <<files, ext_args, recursive, seen, refs, missing, shown, d_ret, parses,
                   walk_steps>>
    /\ UNCHANGED <<gateVars, parseVars>>

Top == stack[Len(stack)]
SetTop(f) == [stack EXCEPT ![Len(stack)] = f]

\* entry of _walk_refs up to the for loop: the seen test, seen.add(root), and the
\* read of the file by _iter_toctree_refs
WalkEnter ==
    /\ d_pc = "walk"
    /\ stack # <<>>
    /\ Top.at = "call"
    /\ LET s == SeenOrNew(seen)
       IN  IF AlreadySeen(Top.root, s)
           THEN /\ stack' = SetTop([Top EXCEPT !.at = "return"])
                /\ seen' = Some(s)
                /\ UNCHANGED parses
           ELSE /\ seen' = Some(s \cup {Top.root})
                /\ stack' = SetTop([Top EXCEPT !.at = "loop",
                                               !.todo = IterToctreeRefs(files[Top.root])])
                /\ parses' = [n \in DOMAIN parses \cup {Top.root} |->
                                 IF n = Top.root THEN ParseCount(n) + 1 ELSE parses[n]]
    /\ UNCHANGED <<d_pc, files, ext_args, recursive, refs, missing, shown, d_ret>>
    /\ walk_steps' = walk_steps + 1
    /\ UNCHANGED <<gateVars, parseVars>>

\* one iteration of "for ref in _iter_toctree_refs(root)"
WalkRef ==
    /\ d_pc = "walk"
    /\ stack # <<>>
    /\ Top.at = "loop"
    /\ Top.todo # <<>>
    /\ LET ref == Head(Top.todo)
           me == [Top EXCEPT !.todo = Tail(Top.todo), !.refs = Append(Top.refs, ref)]
           child == FirstChild(ref, Exts)
       IN  IF recursive /\ child # None
           THEN stack' = Append(SetTop(me),
                   [root |-> child[1], at |-> "call", todo |-> <<>>, refs |-> <<>>])
           ELSE stack' = SetTop(me)
    /\ UNCHANGED <<d_pc, files, ext_args, recursive, seen, refs, missing, shown, d_ret, parses>>
    /\ walk_steps' = walk_steps + 1
    /\ UNCHANGED <<gateVars, parseVars>>

\* return refs (or return [] for a root already seen)
WalkReturn ==
    /\ d_pc = "walk"
    /\ stack # <<>>
    /\ \/ Top.at = "return"
       \/ Top.at = "loop" /\ Top.todo = <<>>
    /\ IF Len(stack) = 1
       THEN /\ refs' = Top.refs
            /\ stack' = <<>>
            /\ d_pc' = "missing"
       ELSE /\ stack' = [SubSeq(stack, 1, Len(stack) - 1) EXCEPT ![Len(stack) - 1].refs =
                             ExtendRefs(stack[Len(stack) - 1].refs, Top.refs)]
            /\ UNCHANGED <<refs, d_pc>>
    /\ UNCHANGED <<files, ext_args, recursive, seen, missing, shown, d_ret, parses>>
    /\ walk_steps' = walk_steps + 1
    /\ UNCHANGED <<gateVars, parseVars>>

\* missing = _missing_paths(refs, docs_dir=docs_dir, exts=exts)
MainMissingPaths ==
    /\ d_pc = "missing"
    /\ missing' = MissingPaths(refs, Exts)
    /\ d_pc' = "report"
    /\ UNCHANGED <<files, ext_args, recursive, stack, seen, refs, shown, d_ret, parses,
                   walk_steps>>
    /\ UNCHANGED <<gateVars, parseVars>>

\* if missing: print every path, return 1; else return 0
MainReport ==
    /\ d_pc = "report"
    /\ IF missing # <<>>
       THEN shown' = missing /\ d_ret' = Some(1)
       ELSE shown' = <<>> /\ d_ret' = Some(0)
    /\ d_pc' = "returned"
    /\ UNCHANGED <<files, ext_args, recursive, stack, seen, refs, missing, parses,
                   walk_steps>>
    /\ UNCHANGED <<gateVars, parseVars>>

DocsNext ==
    \/ MainIndexMissing
    \/ MainCallWalk
    \/ WalkEnter
    \/ WalkRef
    \/ WalkReturn
    \/ MainMissingPaths
    \/ MainReport

(***************************************************************************)
(* The specifications: each runs one program; the other programs' state    *)
(* stays at rest.                                                          *)
(***************************************************************************)
GateIdle ==
    /\ g_pc = "idle" /\ explicit_mode = FALSE /\ elfs = <<>> /\ limit = 0 /\ g_i = 1
    /\ status = 0 /\ max_size = 0 /\ printed = <<>> /\ stamp = None /\ g_ret = None

ParseIdle ==
    /\ p_pc = "idle" /\ consumed = <<>> /\ inside = FALSE /\ base_indent = None
    /\ yielded = <<>>

DocsIdle ==
    /\ d_pc = "idle" /\ files = NoParses /\ ext_args = <<>> /\ recursive = FALSE
    /\ stack = <<>> /\ seen = None /\ refs = <<>> /\ missing = <<>> /\ shown = <<>>
    /\ d_ret = None /\ parses = NoParses /\ walk_steps = 0

InitGate == GateInit /\ ParseIdle /\ DocsIdle
NextGate == GateNext
SpecGate == InitGate /\ [][NextGate]_vars

InitParse == GateIdle /\ ParseInit /\ DocsIdle
NextParse == ParseNext
SpecParse == InitParse /\ [][NextParse]_vars

InitDocs == GateIdle /\ ParseIdle /\ DocsInit
NextDocs == DocsNext
SpecDocs == InitDocs /\ [][NextDocs]_vars

Init == InitGate \/ InitParse \/ InitDocs
Next == NextGate \/ NextParse \/ NextDocs
Spec == Init /\ [][Next]_vars

(***************************************************************************)
(*                     Properties of scripts/size_gate.py                  *)
(***************************************************************************)
\* main went through its whole for loop (no measurement raised) and returned
GateLoopCompleted == g_pc = "returned" /\ g_i > Len(elfs) /\ elfs # <<>>

MeasuredSizes == {FlashUsage(elfs[k]) : k \in 1..Len(elfs)}

\* reading a decimal line back: digits, most significant first, then one newline
IsDigit(c) == \E k \in 1..10 : DigitChar[k] = c
DigitValue(c) == (CHOOSE k \in 1..10 : DigitChar[k] = c) - 1
RECURSIVE DigitsValue(_)
DigitsValue(ds) ==
    IF ds = <<>> THEN 0
    ELSE 10 * DigitsValue(SubSeq(ds, 1, Len(ds) - 1)) + DigitValue(ds[Len(ds)])
IsDecimalLine(t) ==
    /\ Len(t) >= 2
    /\ t[Len(t)] = "\n"
    /\ \A k \in 1..(Len(t) - 1) : IsDigit(t[k])
    /\ (Len(t) > 2 => t[1] # "0")
LineValue(t) == DigitsValue(SubSeq(t, 1, Len(t) - 1))

\* C1: every run of main that returns an exit status has written the stamp file
\* before returning, in explicit-list mode and in directory-sweep mode alike.
C1_StampWrittenOnEveryReturn == g_ret # None => stamp # None

\* C2: once the measuring loop has completed, the stamp file holds the decimal text
\* of the largest footprint measured, followed by one newline, whatever the order of
\* the artifacts; and when every footprint is at or below the limit main returns 0.
C2_StampHoldsLargestFootprint ==
    GateLoopCompleted =>
        /\ stamp # None
        /\ IsDecimalLine(stamp[1])
        /\ LineValue(stamp[1]) = SetMax(MeasuredSizes)
        /\ ((\A sz \in MeasuredSizes : sz <= limit) => g_ret = Some(0))

\* C2 witness: three artifacts, all within the limit, the largest (a number of more
\* than one digit) measured first and the smallest last; main has returned 0.
C2_Witness ==
    /\ GateLoopCompleted
    /\ Len(elfs) = 3
    /\ g_ret = Some(0)
    /\ FlashUsage(elfs[1]) > FlashUsage(elfs[2])
    /\ FlashUsage(elfs[2]) > FlashUsage(elfs[3])
    /\ Len(stamp[1]) > 2

\* what C3 says of a completed run: one report per artifact, in input order, failing
\* exactly above the limit, and the status telling whether any failed
ReportsMatchArtifacts ==
    /\ Len(printed) = Len(elfs)
    /\ \A k \in 1..Len(printed) :
         /\ printed[k].elf = k
         /\ printed[k].size = FlashUsage(elfs[k])
         /\ printed[k].over = (FlashUsage(elfs[k]) > limit)
StatusTellsFailure ==
    /\ g_ret \in {Some(0), Some(1)}
    /\ g_ret = Some(1) <=> \E k \in 1..Len(printed) : printed[k].over

\* C3 as stated, for every artifact list whose measurements all succeed (the empty
\* list of a directory sweep included): each artifact reported once in input order,
\* failing exactly when above the limit, and main returns 1 exactly when at least
\* one artifact was reported as failing, else 0.
C3_Original_StatusIffSomeArtifactFails ==
    (g_pc = "returned" /\ g_i > Len(elfs)) => (ReportsMatchArtifacts /\ StatusTellsFailure)

\* C3 amended: the same for every non-empty artifact list whose measurements all
\* succeed (a directory sweep that finds nothing returns 1 with no artifact failing).
C3_NotFailFast ==
    GateLoopCompleted => (ReportsMatchArtifacts /\ StatusTellsFailure)

\* C3 witness: a failing artifact is followed by one exactly at the limit, which is
\* still measured and reported as passing; main has returned 1.
C3_Witness ==
    /\ GateLoopCompleted
    /\ g_ret = Some(1)
    /\ \E j, k \in 1..Len(printed) :
         /\ j < k
         /\ printed[j].over
         /\ ~printed[k].over
         /\ printed[k].size = limit
         /\ limit > 0

(***************************************************************************)
(*                 Properties of _iter_toctree_refs                        *)
(***************************************************************************)
MarkerLines(ls) == {m \in 1..Len(ls) : IsMarkerLine(ls[m])}
IsOptionLine(line) == StartsWith(Lstrip(line), OptionMarker)
IsContentLine(line) == ~IsMarkerLine(line) /\ ~IsSkippedLine(line)
SetMin(S) == CHOOSE m \in S : \A x \in S : m <= x

\* Line i of ls is an entry of a toctree block: a content line after a directive line
\* m with no directive line in between, where no content line from the block's first
\* content line up to line i is indented less than that first content line.
IsBlockEntry(ls, i) ==
    /\ IsContentLine(ls[i])
    /\ \E m \in MarkerLines(ls) :
         /\ m < i
         /\ \A k \in (m + 1)..i : ~IsMarkerLine(ls[k])
         /\ LET content == {k \in (m + 1)..i : IsContentLine(ls[k])}
            IN  \A k \in content :
                  Indentation(ls[k]) >= Indentation(ls[SetMin(content)])

\* the entries of all blocks of the first n lines, in document order
RECURSIVE BlockEntries(_, _)
BlockEntries(ls, n) ==
    IF n = 0 THEN <<>>
    ELSE BlockEntries(ls, n - 1)
            \o (IF IsBlockEntry(ls, n) THEN <<EntryText(ls[n])>> ELSE <<>>)

RECURSIVE WithoutOptionLines(_)
WithoutOptionLines(ls) ==
    IF ls = <<>> THEN <<>>
    ELSE (IF IsOptionLine(Head(ls)) THEN <<>> ELSE <<Head(ls)>>)
            \o WithoutOptionLines(Tail(ls))

\* C9: an option line inside a block is never returned and leaves the indentation
\* tracking alone: after any lines, the parser's inside flag, expected indentation and
\* returned entries are those it has after the same lines without the option lines.
C9_OptionLinesLeaveTrackingAlone ==
    [inside |-> inside, base_indent |-> base_indent, out |-> yielded]
        = ScanAll(ScanStart, WithoutOptionLines(consumed))

\* C9 witness: a block with an option line at the margin before its first entry and
\* another between its two indented entries, both entries returned.
C9_Witness ==
    /\ p_pc = "end"
    /\ Len(consumed) = 5
    /\ IsMarkerLine(consumed[1])
    /\ IsOptionLine(consumed[2]) /\ Indentation(consumed[2]) = 0
    /\ IsContentLine(consumed[3]) /\ Indentation(consumed[3]) = IndentStep
    /\ IsOptionLine(consumed[4]) /\ Indentation(consumed[4]) = 0
    /\ IsContentLine(consumed[5]) /\ Indentation(consumed[5]) = IndentStep
    /\ yielded = <<EntryA, EntryB>>

\* C10: every reference returned comes from a line indented strictly deeper than the
\* nearest preceding directive line (so the first text line after a block without
\* entries, at the directive's indentation or less, is not returned).
C10_EntriesDeeperThanDirective ==
    [][Len(yielded') > Len(yielded) =>
          /\ MarkerLines(consumed) # {}
          /\ Indentation(consumed'[Len(consumed')])
                > Indentation(consumed[SetMax(MarkerLines(consumed))])]_vars

(***************************************************************************)
(*          Properties of _walk_refs, _missing_paths and main              *)
(***************************************************************************)
\* main has the result of _missing_paths
Checked == d_pc \in {"report", "returned"} /\ Exists(IndexName)
\* main has the result of _walk_refs
Walked == d_pc \in {"missing", "report", "returned"} /\ Exists(IndexName)

\* Reference resolution as the specification words it: a token that ends in an
\* allowed extension is checked verbatim, any other token is tried with each allowed
\* extension in order; the missing path of an unresolved token is the verbatim path,
\* respectively the token with the first allowed extension.
EndsInAllowedExt(ref, exts) == \E i \in 1..Len(exts) : EndsWith(ref, exts[i])
Resolves(ref, exts) ==
    IF EndsInAllowedExt(ref, exts) THEN Exists(ref)
    ELSE \E i \in 1..Len(exts) : Exists(ref \o exts[i])
StatedMissingOf(ref, exts) ==
    IF Resolves(ref, exts) THEN <<>>
    ELSE IF EndsInAllowedExt(ref, exts) THEN <<ref>> ELSE <<ref \o exts[1]>>
RECURSIVE StatedMissing(_, _)
StatedMissing(rs, exts) ==
    IF rs = <<>> THEN <<>>
    ELSE StatedMissingOf(Head(rs), exts) \o StatedMissing(Tail(rs), exts)

\* C4: the existence check reports, for the collected references in order, exactly
\* the missing paths of the stated resolution rule: verbatim check for a token ending
\* in an allowed extension, every allowed extension tried in order for any other
\* token, and the token with the first allowed extension reported when none exists.
C4_MissingPathsFollowStatedRule ==
    Checked => missing = StatedMissing(refs, Exts)

\* C8: main returns 2 when the index file does not exist (before any reference is
\* parsed), 1 exactly when the index exists and at least one collected reference
\* fails to resolve (every missing path printed), 0 exactly when the index exists
\* and every collected reference resolves.
C8_ExitStatusTellsOutcome ==
    d_ret # None =>
        /\ d_ret \in {Some(0), Some(1), Some(2)}
        /\ (~Exists(IndexName) => d_ret = Some(2) /\ parses = NoParses /\ refs = <<>>)
        /\ d_ret = Some(1) <=>
              (Exists(IndexName) /\ \E k \in 1..Len(refs) : ~Resolves(refs[k], Exts))
        /\ d_ret = Some(0) <=>
              (Exists(IndexName) /\ \A k \in 1..Len(refs) : Resolves(refs[k], Exts))
        /\ (d_ret = Some(1) => shown = missing)

ParsedAtMostOnce == \A n \in DOMAIN parses : parses[n] <= 1

HasDuplicates(sq) == \E i, j \in 1..Len(sq) : i < j /\ sq[i] = sq[j]

\* C5 as stated: in recursive mode the list of missing paths produced from the
\* collected references contains no path more than once.
C5_Original_NoPathReportedTwice ==
    (recursive /\ Checked) => ~HasDuplicates(missing)

\* how often the entries of the pages in S, each page counted once, are reported
\* missing as path p
RECURSIVE MissingInPages(_, _)
MissingInPages(S, p) ==
    IF S = {} THEN 0
    ELSE LET n == CHOOSE x \in S : TRUE
         IN  Count(MissingPaths(IterToctreeRefs(files[n]), Exts), p)
                + MissingInPages(S \ {n}, p)

\* C5 amended: in recursive mode a page already seen is not parsed again, so the
\* entries of a sub-page shared by several pages are collected once; the list of
\* missing paths holds one item per collected entry that fails the existence check,
\* so a path occurs in it as often as entries naming it occur in the pages parsed,
\* each page counted once (twice when two pages list the same missing child).
C5_SharedPageCollectedOnce ==
    /\ ParsedAtMostOnce
    /\ (recursive /\ Checked) =>
          \A p \in Range(missing) \cup {r \o Exts[1] : r \in Range(refs)} :
              Count(missing, p) = MissingInPages(DOMAIN parses, p)

\* C5 witness: index lists a and b, a lists b, b lists the missing page c: b is
\* referenced twice, parsed once, and c.rst is reported once.
C5_Witness ==
    /\ recursive
    /\ d_pc = "returned"
    /\ refs = <<TokA, TokB, TokC, TokB>>
    /\ ParseCount(TokB \o Rst) = 1
    /\ missing = <<TokC \o Rst>>

\* The references of a depth-first traversal from a page, given the pages visited
\* before it: each entry, followed at once by the traversal of its target when the
\* target exists and has not been visited.  Result: [out, visited].
RECURSIVE DfsPage(_, _)
RECURSIVE DfsEntries(_, _, _)
DfsEntries(entries, out, visited) ==
    IF entries = <<>> THEN [out |-> out, visited |-> visited]
    ELSE LET ref == Head(entries)
             target == FirstChild(ref, Exts)
         IN  IF recursive /\ target # None /\ target[1] \notin visited
             THEN LET sub == DfsPage(target[1], visited)
                  IN  DfsEntries(Tail(entries), (out \o <<ref>>) \o sub.out, sub.visited)
             ELSE DfsEntries(Tail(entries), out \o <<ref>>, visited)
DfsPage(page, visited) ==
    DfsEntries(IterToctreeRefs(files[page]), <<>>, visited \cup {page})

\* the toctree entries of all files together
RECURSIVE EntriesIn(_)
EntriesIn(S) ==
    IF S = {} THEN 0
    ELSE LET n == CHOOSE x \in S : TRUE
         IN  Len(IterToctreeRefs(files[n])) + EntriesIn(S \ {n})
TotalEntries == EntriesIn(DOMAIN files)

\* while _walk_refs runs there is an innermost call, on a file that exists, which is
\* at its entry, in its loop or about to return: one of its steps can be taken
WalkCanStep ==
    /\ stack # <<>>
    /\ Top.at \in {"call", "loop", "return"}
    /\ Exists(Top.root)

\* C6: the traversal terminates on every reference graph (chains, self-references,
\* cycles): _walk_refs takes a bounded number of steps (one entry and one return per
\* call, one iteration and at most one call per entry of a parsed page) and is never
\* stuck before it returns; it parses each document at most once and returns the
\* references in depth-first order.
C6_WalkTerminatesDepthFirst ==
    /\ ParsedAtMostOnce
    /\ walk_steps <= 3 * TotalEntries + 2
    /\ Len(stack) <= Cardinality(DOMAIN files) + 1
    /\ (d_pc = "walk" => WalkCanStep)
    /\ (Walked => refs = DfsPage(IndexName, {}).out)

\* termination as a liveness property of the fair specification
WalkTerminates == <>(d_pc = "returned")

\* C6 witness: the cycle index -> a -> b -> index with recursion on; the walk has
\* returned the three references in traversal order.
C6_Witness ==
    /\ recursive
    /\ d_pc = "returned"
    /\ Exists(IndexName) /\ IterToctreeRefs(files[IndexName]) = <<TokA>>
    /\ Exists(TokA \o Rst) /\ IterToctreeRefs(files[TokA \o Rst]) = <<TokB>>
    /\ Exists(TokB \o Rst) /\ IterToctreeRefs(files[TokB \o Rst]) = <<IndexToken>>
    /\ refs = <<TokA, TokB, IndexToken>>
    /\ parses = [n \in {IndexName, TokA \o Rst, TokB \o Rst} |-> 1]

\* the program runs to completion: a step that can be taken is taken
SpecDocsFair == SpecDocs /\ WF_vars(NextDocs)

=============================================================================
